---- MODULE Spec2Model ----
(***************************************************************************)
(* Registrants management application (src/app.py): the registration-ID   *)
(* allocator over ticket books, and the add / edit / delete handlers that  *)
(* read and rewrite the registrants file and the revenue ledger.           *)
(*                                                                         *)
(* A Python string that the code inspects (registration IDs, group codes)  *)
(* is a sequence of one-character strings, so that startswith, upper,      *)
(* split('-'), int() and the 04d format are computed and not assumed.      *)
(* The alphabet is letters, digits and "-".                                *)
(***************************************************************************)
EXTENDS Integers, Sequences, FiniteSets, TLC

\* ------------------------------------------------------------------ bounds
\* at most this many add/edit/delete requests are started in a behaviour
MaxReq == 2

\* ------------------------------------------------------------------- state
Procs == {1, 2}

VARIABLES
    store,      \* content of REGISTRANTS_FILE: a list of registrant records
    revenues,   \* content of REVENUES_FILE: a list of revenue entries
    pc,         \* per request worker: where its handler stands
    loaded,     \* per worker: the handler's local list `registrants`
    form,       \* per worker: the request being served
    chosen,     \* per worker: add_registrant's local `registration_id`
    resp,       \* per worker: the response it sent last
    nreq,       \* number of add/edit/delete requests started
    environ,    \* os.environ of the server process
    assigned    \* history: IDs that add_registrant generated and that are
                \* still on file

vars == <<store, revenues, pc, loaded, form, chosen, resp, nreq, environ, assigned>>

\* ------------------------------------------------------- python primitives
Digits == <<"0", "1", "2", "3", "4", "5", "6", "7", "8", "9">>
LowerChars == <<"a", "b", "c", "g", "o", "r", "s", "x">>
UpperChars == <<"A", "B", "C", "G", "O", "R", "S", "X">>

\* the value int() raises ValueError for
ValueError == -1
\* Python None for a first_gap
None == -1
\* the exception GENDER_INFO[gender] raises for an unknown gender
KeyError == <<"KeyError">>
\* 'NoneType' object has no attribute 'startswith'
AttributeError == <<"AttributeError">>
\* a JSON null read from the file (Python None): no string equals it
JsonNull == <<"null">>

isinstance_str(x) == x # JsonNull

SetMax(S) == CHOOSE x \in S : \A y \in S : y <= x

upper_char(c) ==
    IF \E i \in 1..Len(LowerChars) : LowerChars[i] = c
    THEN UpperChars[CHOOSE i \in 1..Len(LowerChars) : LowerChars[i] = c]
    ELSE c

upper(s) == [i \in 1..Len(s) |-> upper_char(s[i])]

startswith(s, p) == Len(s) >= Len(p) /\ SubSeq(s, 1, Len(p)) = p

\* s.split('-')[-1]
split_last(s) ==
    LET dashes == {i \in 1..Len(s) : s[i] = "-"}
        last == IF dashes = {} THEN 0 ELSE SetMax(dashes)
    IN SubSeq(s, last + 1, Len(s))

\* len(s.split('-'))
split_count(s) == Cardinality({i \in 1..Len(s) : s[i] = "-"}) + 1

\* s.split('-')[k] for k = 0, 1 (k-th segment), s having at least k+1 segments
split_part(s, k) ==
    LET dashes == {i \in 1..Len(s) : s[i] = "-"}
        before == IF k = 0 THEN 0
                  ELSE CHOOSE i \in dashes : Cardinality({j \in dashes : j < i}) = k - 1
        after == {i \in dashes : i > before}
        stop == IF after = {} THEN Len(s) + 1
                ELSE CHOOSE i \in after : \A j \in after : i <= j
    IN SubSeq(s, before + 1, stop - 1)

is_digit(c) == \E i \in 1..10 : Digits[i] = c
digit_value(c) == (CHOOSE i \in 1..10 : Digits[i] = c) - 1

RECURSIVE digits_value(_)
digits_value(s) ==
    IF Len(s) = 0 THEN 0
    ELSE 10 * digits_value(SubSeq(s, 1, Len(s) - 1)) + digit_value(s[Len(s)])

\* int(s) of a dash-free segment: its value, or ValueError
int(s) ==
    IF Len(s) > 0 /\ \A i \in 1..Len(s) : is_digit(s[i])
    THEN digits_value(s)
    ELSE ValueError

RECURSIVE digits_of(_)
digits_of(n) ==
    IF n < 10 THEN <<Digits[n + 1]>>
    ELSE digits_of(n \div 10) \o <<Digits[(n % 10) + 1]>>

\* f"{n:04d}" for n >= 0
format_04d(n) ==
    LET d == digits_of(n)
    IN [i \in 1..(IF Len(d) < 4 THEN 4 - Len(d) ELSE 0) |-> "0"] \o d

\* ------------------------------------------------------------ configuration
SC == <<"S", "C">>
AR == <<"A", "R">>
CO == <<"C", "O">>

GROUP_INFO == {AR, SC, CO}

GENDER_INFO == [g \in {"Male", "Female"} |->
                  IF g = "Male" THEN [short |-> <<"B">>] ELSE [short |-> <<"G">>]]

BOOK_KEYS == {<<SC, "Male">>, <<SC, "Female">>, <<AR, "Male">>,
              <<AR, "Female">>, <<CO, "Male">>, <<CO, "Female">>}

BOOK_STRUCTURES == [k \in BOOK_KEYS |->
    CASE k = <<SC, "Male">>   -> << <<1, 50>>, <<51, 100>>, <<101, 150>> >>
      [] k = <<SC, "Female">> -> << <<1, 50>> >>
      [] k = <<AR, "Male">>   -> << <<1, 50>>, <<51, 100>>, <<101, 150>> >>
      [] k = <<AR, "Female">> -> << <<1, 50>>, <<51, 100>> >>
      [] k = <<CO, "Male">>   -> << <<1, 50>>, <<51, 100>>, <<101, 150>> >>
      [] k = <<CO, "Female">> -> << <<1, 35>>, <<36, 50>> >>]

MISSING_COUPONS == { <<"S", "C", "-", "B", "-", "0", "0", "5", "1">> }

\* variant: a gender that is not configured gets the short code X
gender_short_defaulted(gender) ==
    IF gender \in DOMAIN GENDER_INFO THEN GENDER_INFO[gender].short ELSE <<"X">>

\* GENDER_INFO[gender]['short']
gender_short(gender) ==
    IF gender \in DOMAIN GENDER_INFO THEN GENDER_INFO[gender].short ELSE KeyError

make_prefix(group, gender) ==
    group \o <<"-">> \o gender_short(gender) \o <<"-">>

\* --------------------------------------------------------- the ID allocator
\* variant: the prefix is matched with both sides upper-cased
taken_from_registrants_upper(registrants, prefix) ==
    {int(split_last(registrants[i].registration_id)) :
        i \in {j \in 1..Len(registrants) :
                  /\ startswith(upper(registrants[j].registration_id), upper(prefix))
                  /\ int(split_last(registrants[j].registration_id)) # ValueError}}

\* numbers of the stored registrants under the prefix (case-sensitive)
taken_from_registrants(registrants, prefix) ==
    {int(split_last(registrants[i].registration_id)) :
        i \in {j \in 1..Len(registrants) :
                  /\ startswith(registrants[j].registration_id, prefix)
                  /\ int(split_last(registrants[j].registration_id)) # ValueError}}

\* numbers of the ignore_ids / MISSING_COUPONS entries under the prefix,
\* both sides upper-cased
taken_from_upper(ids, prefix) ==
    {int(split_last(upper(m))) :
        m \in {x \in ids : /\ startswith(upper(x), upper(prefix))
                           /\ int(split_last(upper(x))) # ValueError}}

\* variant: ignore_ids are matched against the prefix as they are written
taken_from_ignore_exact(ignore_ids, prefix) ==
    {int(split_last(ignore_ids[i])) :
        i \in {j \in 1..Len(ignore_ids) :
                  /\ startswith(ignore_ids[j], prefix)
                  /\ int(split_last(ignore_ids[j])) # ValueError}}

taken_from_ignore(ignore_ids, prefix) ==
    taken_from_upper({ignore_ids[i] : i \in 1..Len(ignore_ids)}, prefix)

\* variant: the missing coupons are not looked at
taken_from_missing_none(prefix) == {}

taken_from_missing(prefix) == taken_from_upper(MISSING_COUPONS, prefix)

\* variant: one more than the greatest taken number
first_gap_after_max(next_number, taken) ==
    IF taken = {} THEN next_number ELSE SetMax(taken) + 1

\* next_number = 1; while next_number in taken: next_number += 1
RECURSIVE first_gap_from(_, _)
first_gap_from(next_number, taken) ==
    IF next_number \in taken THEN first_gap_from(next_number + 1, taken)
    ELSE next_number

\* variant: the ID suggested by the previous call is kept reserved
get_next_registration_id_reserving(registrants, group, gender, ignore_ids) ==
    IF gender_short(gender) = KeyError THEN KeyError
    ELSE IF \E i \in 1..Len(registrants) : ~isinstance_str(registrants[i].registration_id)
         THEN AttributeError
    ELSE LET prefix == make_prefix(group, gender)
             reserved == IF resp[1].op = "next" /\ resp[1].status = 200
                         THEN <<resp[1].result>> ELSE <<>>
             taken == taken_from_registrants(registrants, prefix)
                        \cup taken_from_ignore(ignore_ids \o reserved, prefix)
                        \cup taken_from_missing(prefix)
         IN prefix \o format_04d(first_gap_from(1, taken))

\* registrants is what load_registrants() returns at the call
get_next_registration_id(registrants, group, gender, ignore_ids) ==
    IF gender_short(gender) = KeyError THEN KeyError
    ELSE IF \E i \in 1..Len(registrants) : ~isinstance_str(registrants[i].registration_id)
         THEN AttributeError
    ELSE LET prefix == make_prefix(group, gender)
             taken == taken_from_registrants(registrants, prefix)
                        \cup taken_from_ignore(ignore_ids, prefix)
                        \cup taken_from_missing(prefix)
         IN prefix \o format_04d(first_gap_from(1, taken))

\* variant: the number after the greatest taken number of the book
book_first_gap_after_max(candidate, end, nums) ==
    IF nums = {} THEN candidate
    ELSE IF SetMax(nums) + 1 > end THEN None
    ELSE SetMax(nums) + 1

\* for candidate in range(start, end + 1): if candidate not in nums: ... break
RECURSIVE book_first_gap(_, _, _)
book_first_gap(candidate, end, nums) ==
    IF candidate > end THEN None
    ELSE IF candidate \notin nums THEN candidate
    ELSE book_first_gap(candidate + 1, end, nums)

\* variant: the first number of the book is left out
nums_in_book_after_start(taken_numbers, start, end) ==
    {n \in taken_numbers : start < n /\ n <= end}

\* {n for n in taken_numbers if start <= n <= end}
nums_in_book_of(taken_numbers, start, end) ==
    {n \in taken_numbers : start <= n /\ n <= end}

\* variant: every book counts as started
book_meta_always_started(book, taken_numbers) ==
    LET start == book[1]
        end == book[2]
        nums_in_book == nums_in_book_of(taken_numbers, start, end)
        first_gap == book_first_gap(start, end, nums_in_book)
    IN [range |-> book, started |-> TRUE,
        vacancy |-> first_gap # None, first_gap |-> first_gap]

\* one iteration of the loop over book_defs
book_meta(book, taken_numbers) ==
    LET start == book[1]
        end == book[2]
        nums_in_book == nums_in_book_of(taken_numbers, start, end)
        started == nums_in_book # {}
        first_gap == IF started THEN book_first_gap(start, end, nums_in_book) ELSE None
    IN [range |-> book, started |-> started,
        vacancy |-> first_gap # None, first_gap |-> first_gap]

RECURSIVE books_loop(_, _, _, _, _)
\* variant: a started book with vacancy offers its first number
books_loop_offering_start(book_defs, i, taken_numbers, prefix, acc) ==
    IF i > Len(book_defs) THEN acc
    ELSE LET m == book_meta(book_defs[i], taken_numbers)
         IN books_loop(book_defs, i + 1, taken_numbers, prefix,
               [books |-> Append(acc.books, m),
                options |-> IF m.started /\ m.vacancy
                            THEN Append(acc.options, prefix \o format_04d(book_defs[i][1]))
                            ELSE acc.options,
                any_started |-> acc.any_started \/ m.started])

\* the loop over book_defs: acc = [books, options, any_started]
books_loop(book_defs, i, taken_numbers, prefix, acc) ==
    IF i > Len(book_defs) THEN acc
    ELSE LET m == book_meta(book_defs[i], taken_numbers)
         IN books_loop(book_defs, i + 1, taken_numbers, prefix,
               [books |-> Append(acc.books, m),
                options |-> IF m.started /\ m.vacancy
                            THEN Append(acc.options, prefix \o format_04d(m.first_gap))
                            ELSE acc.options,
                any_started |-> acc.any_started \/ m.started])

\* variant: nothing is offered while no book is started
first_book_override_none(book_defs, taken_numbers, prefix, acc) == acc

\* the block under "if not any_started"
first_book_override(book_defs, taken_numbers, prefix, acc) ==
    IF acc.any_started THEN acc
    ELSE LET candidate == book_first_gap(book_defs[1][1], book_defs[1][2], taken_numbers)
         IN IF candidate = None THEN acc
            ELSE [books |-> [acc.books EXCEPT ![1] =
                               [range |-> @.range, started |-> FALSE,
                                vacancy |-> TRUE, first_gap |-> candidate]],
                  options |-> <<prefix \o format_04d(candidate)>>,
                  any_started |-> FALSE]

id_number(rid) == int(split_last(rid))

\* variant: the last entry of options
min_option_last(options) == options[Len(options)]

\* min(options, key=number): the first of the entries with the least number
min_option(options) ==
    options[CHOOSE i \in 1..Len(options) :
               /\ \A j \in 1..Len(options) : id_number(options[i]) <= id_number(options[j])
               /\ \A j \in 1..(i - 1) : id_number(options[j]) # id_number(options[i])]

\* options.sort(key=number): stable insertion into a sorted list
RECURSIVE sort_options(_)
sort_options(options) ==
    IF Len(options) <= 1 THEN options
    ELSE LET x == options[Len(options)]
             rest == sort_options(SubSeq(options, 1, Len(options) - 1))
             k == Cardinality({i \in 1..Len(rest) : id_number(rest[i]) <= id_number(x)})
         IN SubSeq(rest, 1, k) \o <<x>> \o SubSeq(rest, k + 1, Len(rest))

\* variant: the fallback offers no option
fallback_answer_no_option(registrants, group, gender) ==
    LET fallback == get_next_registration_id(registrants, group, gender, <<>>)
    IN IF fallback \in {KeyError, AttributeError} THEN [raised |-> fallback]
       ELSE [raised |-> <<>>, next_id |-> fallback, options |-> <<>>, books |-> <<>>]

\* the block under "if (group, gender) not in BOOK_STRUCTURES"
fallback_answer(registrants, group, gender) ==
    LET fallback == get_next_registration_id(registrants, group, gender, <<>>)
    IN IF fallback \in {KeyError, AttributeError} THEN [raised |-> fallback]
       ELSE [raised |-> <<>>, next_id |-> fallback, options |-> <<fallback>>,
             books |-> <<>>]

\* variant: with nothing to offer, next_id is the number after the last book
compute_vacant_registration_ids_past_last(registrants, group, gender) ==
    IF <<group, gender>> \notin DOMAIN BOOK_STRUCTURES
    THEN fallback_answer(registrants, group, gender)
    ELSE IF \E i \in 1..Len(registrants) : ~isinstance_str(registrants[i].registration_id)
         THEN [raised |-> AttributeError]
    ELSE LET prefix == make_prefix(group, gender)
             taken_numbers == taken_from_registrants(registrants, prefix)
                                \cup taken_from_missing(prefix)
             book_defs == BOOK_STRUCTURES[<<group, gender>>]
             looped == books_loop(book_defs, 1, taken_numbers, prefix,
                          [books |-> <<>>, options |-> <<>>, any_started |-> FALSE])
             res == first_book_override(book_defs, taken_numbers, prefix, looped)
         IN [raised |-> <<>>,
             next_id |-> IF res.options # <<>> THEN min_option(res.options)
                         ELSE prefix \o format_04d(book_defs[Len(book_defs)][2] + 1),
             options |-> sort_options(res.options),
             books |-> res.books]

\* registrants is what load_registrants() returns (the file does not change
\* during the call in the specifications that use this operator); raised is
\* the exception the call ends with, <<>> when it returns
compute_vacant_registration_ids(registrants, group, gender) ==
    IF <<group, gender>> \notin DOMAIN BOOK_STRUCTURES
    THEN fallback_answer(registrants, group, gender)
    ELSE IF \E i \in 1..Len(registrants) : ~isinstance_str(registrants[i].registration_id)
         THEN [raised |-> AttributeError]
    ELSE LET prefix == make_prefix(group, gender)
             taken_numbers == taken_from_registrants(registrants, prefix)
                                \cup taken_from_missing(prefix)
             book_defs == BOOK_STRUCTURES[<<group, gender>>]
             looped == books_loop(book_defs, 1, taken_numbers, prefix,
                          [books |-> <<>>, options |-> <<>>, any_started |-> FALSE])
             res == first_book_override(book_defs, taken_numbers, prefix, looped)
         IN [raised |-> <<>>,
             next_id |-> IF res.options # <<>> THEN min_option(res.options)
                         ELSE get_next_registration_id(registrants, group, gender, <<>>),
             options |-> sort_options(res.options),
             books |-> res.books]

\* ------------------------------------------------------------ stored records
TSHIRT_SIZES == {"M", "L", "XL", "XXL", "3XL", "4XL"}

CLIENT_MAPPINGS(group, gender) ==
    CASE group = SC /\ gender = "Male"   -> "Arian Mollik Wasi"
      [] group = SC /\ gender = "Female" -> "Marzia Mittika"
      [] group = AR /\ gender = "Male"   -> "Sahariar Nafiz"
      [] group = AR /\ gender = "Female" -> "S Shanta"
      [] group = CO /\ gender = "Male"   -> "Tanzid Jayid"
      [] group = CO /\ gender = "Female" -> "Mehbuba"
      [] OTHER -> ""

get_default_clients(group, gender) ==
    IF CLIENT_MAPPINGS(group, gender) # "" THEN <<CLIENT_MAPPINGS(group, gender)>> ELSE <<>>

Registrant(name, roll, gender, group, rid, paid, tshirt_size) ==
    [name |-> name, roll |-> roll, gender |-> gender, group |-> group,
     registration_id |-> rid, revoked |-> FALSE, paid |-> paid,
     tshirt |-> tshirt_size # "", tshirt_size |-> tshirt_size]

NoForm == [op |-> "none"]
NoResp == [op |-> "none"]

\* ------------------------------------------------------------- add_registrant
\* the IDs of a set that some record of the list holds
StillStored(ids, registrants) ==
    {x \in ids : \E i \in 1..Len(registrants) : registrants[i].registration_id = x}

\* variant: a provided registration_id is not checked against the list
add_validate_no_id_check(registrants, f) ==
    IF f.name = "" \/ f.roll = "" \/ f.gender = "" \/ f.group = <<>> THEN "required"
    ELSE IF \E i \in 1..Len(registrants) : registrants[i].roll = f.roll THEN "roll_conflict"
    ELSE IF f.tshirt /\ f.tshirt_size = "" THEN "tshirt_missing"
    ELSE IF f.tshirt /\ f.tshirt_size \notin TSHIRT_SIZES THEN "tshirt_invalid"
    ELSE "ok"

\* the validation chain of add_registrant over its loaded list
add_validate(registrants, f) ==
    IF f.name = "" \/ f.roll = "" \/ f.gender = "" \/ f.group = <<>> THEN "required"
    ELSE IF \E i \in 1..Len(registrants) : registrants[i].roll = f.roll THEN "roll_conflict"
    ELSE IF f.tshirt /\ f.tshirt_size = "" THEN "tshirt_missing"
    ELSE IF f.tshirt /\ f.tshirt_size \notin TSHIRT_SIZES THEN "tshirt_invalid"
    ELSE IF /\ f.registration_id # <<>>
            /\ \E i \in 1..Len(registrants) :
                  registrants[i].registration_id = f.registration_id
         THEN "id_conflict"
    ELSE "ok"

\* variant: the record keeps the registration_id field of the form
new_registrant_form_id(f, registration_id) ==
    [name |-> f.name, roll |-> f.roll, gender |-> f.gender, group |-> f.group,
     registration_id |-> f.registration_id, revoked |-> FALSE, paid |-> f.paid,
     tshirt |-> f.tshirt, tshirt_size |-> IF f.tshirt THEN f.tshirt_size ELSE ""]

\* the new_registrant dict of add_registrant
new_registrant(f, registration_id) ==
    [name |-> f.name, roll |-> f.roll, gender |-> f.gender, group |-> f.group,
     registration_id |-> registration_id, revoked |-> FALSE, paid |-> f.paid,
     tshirt |-> f.tshirt, tshirt_size |-> IF f.tshirt THEN f.tshirt_size ELSE ""]

\* the entry add_revenue_entry appends; its id is a timestamp later than
\* every id on file
revenue_entry(revs, name, group, gender, amount, clients) ==
    [id |-> 1 + SetMax({0} \cup {revs[i].id : i \in 1..Len(revs)}),
     type |-> "Registration",
     amount |-> amount,
     clients |-> IF clients # <<>> THEN clients
                 ELSE IF get_default_clients(group, gender) # <<>>
                      THEN get_default_clients(group, gender)
                      ELSE <<"Unknown Client">>,
     comments |-> name]

\* variant: the fee of a refused form is entered in the ledger all the same
AddLoad_charging_refused(p, f) ==
    /\ pc[p] = "idle"
    /\ nreq < MaxReq
    /\ nreq' = nreq + 1
    /\ LET registrants == store
           status == add_validate(registrants, f)
       IN IF status # "ok"
          THEN /\ resp' = [resp EXCEPT ![p] = [op |-> "add", status |-> status]]
               /\ revenues' = Append(revenues,
                                 revenue_entry(revenues, f.name, f.group, f.gender,
                                               f.paid, f.revenue_clients))
               /\ UNCHANGED <<pc, loaded, form, chosen>>
          ELSE /\ resp' = [resp EXCEPT ![p] = NoResp]
               /\ loaded' = [loaded EXCEPT ![p] = registrants]
               /\ form' = [form EXCEPT ![p] = f]
               /\ chosen' = [chosen EXCEPT ![p] = f.registration_id]
               /\ pc' = [pc EXCEPT ![p] =
                           IF f.registration_id # <<>> THEN "add_save" ELSE "add_generate"]
               /\ UNCHANGED revenues
    /\ UNCHANGED <<store, environ, assigned>>

\* POST /add up to the uniqueness check: load the file, validate the form
AddLoad(p, f) ==
    /\ pc[p] = "idle"
    /\ nreq < MaxReq
    /\ nreq' = nreq + 1
    /\ LET registrants == store
           status == add_validate(registrants, f)
       IN IF status # "ok"
          THEN /\ resp' = [resp EXCEPT ![p] = [op |-> "add", status |-> status]]
               /\ UNCHANGED <<pc, loaded, form, chosen>>
          ELSE /\ resp' = [resp EXCEPT ![p] = NoResp]
               /\ loaded' = [loaded EXCEPT ![p] = registrants]
               /\ form' = [form EXCEPT ![p] = f]
               /\ chosen' = [chosen EXCEPT ![p] = f.registration_id]
               /\ pc' = [pc EXCEPT ![p] =
                           IF f.registration_id # <<>> THEN "add_save" ELSE "add_generate"]
    /\ UNCHANGED <<store, revenues, environ, assigned>>

\* registration_id = get_next_registration_id(group, gender): reads the file again
AddGenerate(p) ==
    /\ pc[p] = "add_generate"
    /\ LET rid == get_next_registration_id(store, form[p].group, form[p].gender, <<>>)
       IN IF rid \in {KeyError, AttributeError}
          THEN /\ resp' = [resp EXCEPT ![p] = [op |-> "add", status |-> "error"]]
               /\ pc' = [pc EXCEPT ![p] = "idle"]
               /\ loaded' = [loaded EXCEPT ![p] = <<>>]
               /\ form' = [form EXCEPT ![p] = NoForm]
               /\ UNCHANGED chosen
          ELSE /\ chosen' = [chosen EXCEPT ![p] = rid]
               /\ pc' = [pc EXCEPT ![p] = "add_save"]
               /\ UNCHANGED <<resp, loaded, form>>
    /\ UNCHANGED <<store, revenues, nreq, environ, assigned>>

\* registrants.append(new_registrant); save_registrants(registrants)
AddSave(p) ==
    /\ pc[p] = "add_save"
    /\ \E saved \in BOOLEAN :
         IF saved
         THEN /\ store' = Append(loaded[p], new_registrant(form[p], chosen[p]))
              /\ pc' = [pc EXCEPT ![p] = "add_revenue"]
              /\ UNCHANGED <<resp, form, chosen>>
         ELSE /\ resp' = [resp EXCEPT ![p] = [op |-> "add", status |-> "save_failed"]]
              /\ pc' = [pc EXCEPT ![p] = "idle"]
              /\ form' = [form EXCEPT ![p] = NoForm]
              /\ chosen' = [chosen EXCEPT ![p] = <<>>]
              /\ UNCHANGED store
    /\ loaded' = [loaded EXCEPT ![p] = <<>>]
    /\ assigned' = StillStored(assigned, store')
                    \cup (IF store' # store /\ form[p].registration_id = <<>>
                          THEN {chosen[p]} ELSE {})
    /\ UNCHANGED <<revenues, nreq, environ>>

\* add_revenue_entry(...), then the success response
AddRevenue(p) ==
    /\ pc[p] = "add_revenue"
    /\ \E saved \in BOOLEAN :
         revenues' = IF saved
                     THEN Append(revenues,
                            revenue_entry(revenues, form[p].name, form[p].group,
                                          form[p].gender, form[p].paid,
                                          form[p].revenue_clients))
                     ELSE revenues
    /\ resp' = [resp EXCEPT ![p] =
                  [op |-> "add", status |-> "ok", name |-> form[p].name,
                   registration_id |-> chosen[p]]]
    /\ pc' = [pc EXCEPT ![p] = "idle"]
    /\ form' = [form EXCEPT ![p] = NoForm]
    /\ chosen' = [chosen EXCEPT ![p] = <<>>]
    /\ UNCHANGED <<store, loaded, nreq, environ, assigned>>

\* ------------------------------------------------------------ edit_registrant
\* index of the first registrant holding rid, 0 when there is none
find_registrant(registrants, rid) ==
    IF \E i \in 1..Len(registrants) : registrants[i].registration_id = rid
    THEN CHOOSE i \in 1..Len(registrants) :
            /\ registrants[i].registration_id = rid
            /\ \A j \in 1..(i - 1) : registrants[j].registration_id # rid
    ELSE 0

\* the gender whose short code is the second segment of the new ID, "" if none
parsed_gender_full(new_id) ==
    IF \E g \in DOMAIN GENDER_INFO : GENDER_INFO[g].short = split_part(new_id, 1)
    THEN CHOOSE g \in DOMAIN GENDER_INFO : GENDER_INFO[g].short = split_part(new_id, 1)
    ELSE ""

\* the checks of a changed registration_id, in the order of the code
edit_id_status(registrants, i, f) ==
    LET new_id == f.registration_id
    IN IF new_id = <<>> \/ new_id = registrants[i].registration_id THEN "unchanged"
       ELSE IF split_count(new_id) < 3 THEN "bad_format"
       ELSE IF \E j \in 1..Len(registrants) :
                   j # i /\ registrants[j].registration_id = new_id
            THEN "id_conflict"
       ELSE IF /\ f.gender # ""
               /\ parsed_gender_full(new_id) # ""
               /\ f.gender # parsed_gender_full(new_id)
            THEN "gender_conflict"
       ELSE "changed"

edit_status(registrants, i, f) ==
    LET ids == edit_id_status(registrants, i, f)
    IN IF ids \notin {"unchanged", "changed"} THEN ids
       ELSE IF f.tshirt /\ f.tshirt_size = "" THEN "tshirt_missing"
       ELSE IF f.tshirt /\ f.tshirt_size \notin TSHIRT_SIZES THEN "tshirt_invalid"
       ELSE "ok"

\* the record after an accepted edit
edited_registrant(r, f, id_changed) ==
    [name |-> f.name, roll |-> f.roll, gender |-> f.gender,
     group |-> IF id_changed /\ split_part(f.registration_id, 0) \in GROUP_INFO
               THEN split_part(f.registration_id, 0) ELSE r.group,
     registration_id |-> IF id_changed THEN f.registration_id ELSE r.registration_id,
     revoked |-> f.revoked, paid |-> f.paid,
     tshirt |-> f.tshirt, tshirt_size |-> IF f.tshirt THEN f.tshirt_size ELSE ""]

\* variant: a form refused for its T-shirt size is saved as far as it was applied
EditLoad_saving_refused(p, rid, f) ==
    /\ pc[p] = "idle"
    /\ nreq < MaxReq
    /\ nreq' = nreq + 1
    /\ LET registrants == store
           i == find_registrant(registrants, rid)
       IN IF i = 0
          THEN /\ resp' = [resp EXCEPT ![p] = [op |-> "edit", status |-> "not_found"]]
               /\ UNCHANGED <<pc, loaded, form, store>>
          ELSE LET status == edit_status(registrants, i, f)
               IN IF status # "ok"
                  THEN /\ resp' = [resp EXCEPT ![p] = [op |-> "edit", status |-> status]]
                       /\ store' = IF status \in {"tshirt_missing", "tshirt_invalid"}
                                   THEN [registrants EXCEPT ![i] =
                                           edited_registrant(@, f,
                                              edit_id_status(registrants, i, f) = "changed")]
                                   ELSE store
                       /\ UNCHANGED <<pc, loaded, form>>
                  ELSE /\ resp' = [resp EXCEPT ![p] = NoResp]
                       /\ loaded' = [loaded EXCEPT ![p] =
                             [registrants EXCEPT ![i] =
                                edited_registrant(@, f,
                                   edit_id_status(registrants, i, f) = "changed")]]
                       /\ form' = [form EXCEPT ![p] =
                             [op |-> "edit", old_name |-> registrants[i].name,
                              name |-> f.name, revenue_clients |-> f.revenue_clients]]
                       /\ pc' = [pc EXCEPT ![p] = "edit_save"]
                       /\ UNCHANGED store
    /\ UNCHANGED <<revenues, chosen, environ, assigned>>

\* POST /edit/<rid> up to registrants[registrant_index] = registrant
EditLoad(p, rid, f) ==
    /\ pc[p] = "idle"
    /\ nreq < MaxReq
    /\ nreq' = nreq + 1
    /\ LET registrants == store
           i == find_registrant(registrants, rid)
       IN IF i = 0
          THEN /\ resp' = [resp EXCEPT ![p] = [op |-> "edit", status |-> "not_found"]]
               /\ UNCHANGED <<pc, loaded, form>>
          ELSE LET status == edit_status(registrants, i, f)
               IN IF status # "ok"
                  THEN /\ resp' = [resp EXCEPT ![p] = [op |-> "edit", status |-> status]]
                       /\ UNCHANGED <<pc, loaded, form>>
                  ELSE /\ resp' = [resp EXCEPT ![p] = NoResp]
                       /\ loaded' = [loaded EXCEPT ![p] =
                             [registrants EXCEPT ![i] =
                                edited_registrant(@, f,
                                   edit_id_status(registrants, i, f) = "changed")]]
                       /\ form' = [form EXCEPT ![p] =
                             [op |-> "edit", old_name |-> registrants[i].name,
                              name |-> f.name, revenue_clients |-> f.revenue_clients]]
                       /\ pc' = [pc EXCEPT ![p] = "edit_save"]
    /\ UNCHANGED <<store, revenues, chosen, environ, assigned>>

\* save_registrants(registrants) of edit_registrant
EditSave(p) ==
    /\ pc[p] = "edit_save"
    /\ \E saved \in BOOLEAN :
         IF saved
         THEN /\ store' = loaded[p]
              /\ IF form[p].revenue_clients # <<>>
                 THEN /\ pc' = [pc EXCEPT ![p] = "edit_revenue"]
                      /\ UNCHANGED <<resp, form>>
                 ELSE /\ pc' = [pc EXCEPT ![p] = "idle"]
                      /\ resp' = [resp EXCEPT ![p] = [op |-> "edit", status |-> "ok"]]
                      /\ form' = [form EXCEPT ![p] = NoForm]
         ELSE /\ resp' = [resp EXCEPT ![p] = [op |-> "edit", status |-> "save_failed"]]
              /\ pc' = [pc EXCEPT ![p] = "idle"]
              /\ form' = [form EXCEPT ![p] = NoForm]
              /\ UNCHANGED store
    /\ loaded' = [loaded EXCEPT ![p] = <<>>]
    /\ assigned' = StillStored(assigned, store')
    /\ UNCHANGED <<revenues, chosen, nreq, environ>>

\* index of the Registration entry with the greatest id whose comments are
\* name (the first such one on a tie), 0 when there is none
find_latest_registration_revenue_by_name(revs, name) ==
    LET candidates == {i \in 1..Len(revs) :
                          revs[i].type = "Registration" /\ revs[i].comments = name}
    IN IF candidates = {} THEN 0
       ELSE CHOOSE i \in candidates :
               /\ \A j \in candidates : revs[j].id <= revs[i].id
               /\ \A j \in candidates : j < i => revs[j].id < revs[i].id

\* the ledger after update_revenue_clients_for_name (clients not empty)
update_revenue_clients_for_name(revs, current_name, new_name, clients) ==
    LET byCurrent == find_latest_registration_revenue_by_name(revs, current_name)
        idx == IF byCurrent # 0 THEN byCurrent
               ELSE find_latest_registration_revenue_by_name(revs, new_name)
    IN IF idx = 0 THEN revs
       ELSE [revs EXCEPT ![idx] =
               [id |-> @.id, type |-> @.type, amount |-> @.amount,
                clients |-> clients,
                comments |-> IF new_name # "" THEN new_name ELSE @.comments]]

\* update_revenue_clients_for_name(old_name, name, clients_list), then the response
EditRevenue(p) ==
    /\ pc[p] = "edit_revenue"
    /\ \E saved \in BOOLEAN :
         revenues' = IF saved
                     THEN update_revenue_clients_for_name(revenues, form[p].old_name,
                             form[p].name, form[p].revenue_clients)
                     ELSE revenues
    /\ resp' = [resp EXCEPT ![p] = [op |-> "edit", status |-> "ok"]]
    /\ pc' = [pc EXCEPT ![p] = "idle"]
    /\ form' = [form EXCEPT ![p] = NoForm]
    /\ UNCHANGED <<store, loaded, chosen, nreq, environ, assigned>>

\* ---------------------------------------------------------- delete_registrant
\* registrants = [r for r in registrants if r.registration_id != rid]
RECURSIVE without_id(_, _)
without_id(registrants, rid) ==
    IF registrants = <<>> THEN <<>>
    ELSE IF Head(registrants).registration_id = rid THEN without_id(Tail(registrants), rid)
    ELSE <<Head(registrants)>> \o without_id(Tail(registrants), rid)

\* revenues = [e for e in revenues if not matches_revenue_entry(e)]
RECURSIVE without_revenue(_, _)
without_revenue(revs, name) ==
    IF revs = <<>> THEN <<>>
    ELSE IF Head(revs).comments = name /\ Head(revs).type = "Registration"
         THEN without_revenue(Tail(revs), name)
    ELSE <<Head(revs)>> \o without_revenue(Tail(revs), name)

\* POST /delete/<rid> up to the filtered list
DeleteLoad(p, rid, delete_revenue) ==
    /\ pc[p] = "idle"
    /\ nreq < MaxReq
    /\ nreq' = nreq + 1
    /\ LET registrants == store
           i == find_registrant(registrants, rid)
       IN IF i = 0
          THEN /\ resp' = [resp EXCEPT ![p] = [op |-> "delete", status |-> "not_found"]]
               /\ UNCHANGED <<pc, loaded, form>>
          ELSE /\ resp' = [resp EXCEPT ![p] = NoResp]
               /\ loaded' = [loaded EXCEPT ![p] = without_id(registrants, rid)]
               /\ form' = [form EXCEPT ![p] =
                     [op |-> "delete", name |-> registrants[i].name,
                      delete_revenue |-> delete_revenue]]
               /\ pc' = [pc EXCEPT ![p] = "delete_save"]
    /\ UNCHANGED <<store, revenues, chosen, environ, assigned>>

\* save_registrants(registrants) of delete_registrant
DeleteSave(p) ==
    /\ pc[p] = "delete_save"
    /\ \E saved \in BOOLEAN :
         IF saved
         THEN /\ store' = loaded[p]
              /\ IF form[p].delete_revenue
                 THEN /\ pc' = [pc EXCEPT ![p] = "delete_revenue"]
                      /\ UNCHANGED <<resp, form>>
                 ELSE /\ pc' = [pc EXCEPT ![p] = "idle"]
                      /\ resp' = [resp EXCEPT ![p] = [op |-> "delete", status |-> "ok"]]
                      /\ form' = [form EXCEPT ![p] = NoForm]
         ELSE /\ resp' = [resp EXCEPT ![p] = [op |-> "delete", status |-> "save_failed"]]
              /\ pc' = [pc EXCEPT ![p] = "idle"]
              /\ form' = [form EXCEPT ![p] = NoForm]
              /\ UNCHANGED store
    /\ loaded' = [loaded EXCEPT ![p] = <<>>]
    /\ assigned' = StillStored(assigned, store')
    /\ UNCHANGED <<revenues, chosen, nreq, environ>>

\* the delete_revenue branch: drop the Registration entries commented with the name
DeleteRevenue(p) ==
    /\ pc[p] = "delete_revenue"
    /\ \E saved \in BOOLEAN :
         revenues' = IF saved THEN without_revenue(revenues, form[p].name) ELSE revenues
    /\ resp' = [resp EXCEPT ![p] = [op |-> "delete", status |-> "ok"]]
    /\ pc' = [pc EXCEPT ![p] = "idle"]
    /\ form' = [form EXCEPT ![p] = NoForm]
    /\ UNCHANGED <<store, loaded, chosen, nreq, environ, assigned>>

\* --------------------------------------------------------------- API queries
\* variant: the suggested ID is written to the file as a placeholder record
api_next_registration_id_recording(p, group, gender, ignore_ids) ==
    /\ pc[p] = "idle"
    /\ LET next_id == get_next_registration_id(store, group, gender, ignore_ids)
       IN /\ resp' = [resp EXCEPT ![p] =
                [op |-> "next", group |-> group, gender |-> gender,
                 ignore_ids |-> ignore_ids,
                 status |-> IF next_id \in {KeyError, AttributeError} THEN 400 ELSE 200,
                 result |-> next_id]]
          /\ store' = IF next_id \in {KeyError, AttributeError} THEN store
                      ELSE Append(store, Registrant("", "", gender, group, next_id, 0, ""))
    /\ UNCHANGED <<revenues, pc, loaded, form, chosen, nreq, environ, assigned>>

\* GET /api/next_registration_id?group=&gender=&ignore_ids=
api_next_registration_id(p, group, gender, ignore_ids) ==
    /\ pc[p] = "idle"
    /\ resp' = [resp EXCEPT ![p] =
          IF group = <<>> \/ gender = ""
          THEN [op |-> "next", group |-> group, gender |-> gender,
                ignore_ids |-> ignore_ids, status |-> 400, result |-> <<>>]
          ELSE LET next_id == get_next_registration_id(store, group, gender, ignore_ids)
               IN [op |-> "next", group |-> group, gender |-> gender,
                   ignore_ids |-> ignore_ids,
                   status |-> IF next_id \in {KeyError, AttributeError} THEN 400 ELSE 200,
                   result |-> next_id]]
    /\ UNCHANGED <<store, revenues, pc, loaded, form, chosen, nreq, environ, assigned>>

\* GET /api/vacant_registration_ids?group=&gender=
api_vacant_registration_ids(p, group, gender) ==
    /\ pc[p] = "idle"
    /\ resp' = [resp EXCEPT ![p] =
          IF group = <<>> \/ gender = ""
          THEN [op |-> "vacant", group |-> group, gender |-> gender,
                status |-> 400, result |-> <<>>]
          ELSE LET result == compute_vacant_registration_ids(store, group, gender)
               IN [op |-> "vacant", group |-> group, gender |-> gender,
                   status |-> IF result.raised # <<>> THEN 400 ELSE 200,
                   result |-> result]]
    /\ UNCHANGED <<store, revenues, pc, loaded, form, chosen, nreq, environ, assigned>>

\* ---------------------------------------------------------------- push_github
\* an environment variable that is not set
Unset == "<unset>"

\* return codes of a git command: success, failure
ReturnCodes == {0, 1}

\* os.environ.get(name, default)
environ_get(name, default) ==
    IF environ[name] = Unset THEN default ELSE environ[name]

\* run_git_ops of one repository: the return codes of git add, commit and
\* push, or 127 for add alone when the directory does not exist
run_git_ops(exists, rc_add, rc_commit, rc_push) ==
    IF ~exists
    THEN [add |-> 127, commit |-> None, push |-> None, success |-> FALSE]
    ELSE [add |-> rc_add, commit |-> rc_commit, push |-> rc_push,
          success |-> (rc_push = 0) \/ (rc_commit = 0)]

\* the git commands a run_git_ops result reports as run
commands_run(res) ==
    {c \in {"add", "commit", "push"} :
        CASE c = "add" -> res.add # 127
          [] c = "commit" -> res.commit # None
          [] c = "push" -> res.push # None}

\* POST /push-github
push_github(p) ==
    /\ pc[p] = "idle"
    /\ IF ~(environ_get("DISABLE_GIT_PUSH", "0") # "1")
       THEN resp' = [resp EXCEPT ![p] =
                       [op |-> "push", status |-> 403, success |-> FALSE, ran |-> {}]]
       ELSE \E verify_exists \in BOOLEAN, income_exists \in BOOLEAN,
               rc_verify \in [{"add", "commit", "push"} -> ReturnCodes],
               rc_income \in [{"add", "commit", "push"} -> ReturnCodes] :
               LET verify_res == run_git_ops(verify_exists, rc_verify["add"],
                                             rc_verify["commit"], rc_verify["push"])
                   income_res == run_git_ops(income_exists, rc_income["add"],
                                             rc_income["commit"], rc_income["push"])
                   overall_success == verify_res.success \/ income_res.success
               IN resp' = [resp EXCEPT ![p] =
                     [op |-> "push",
                      status |-> IF overall_success THEN 200 ELSE 500,
                      success |-> overall_success,
                      verify |-> verify_res,
                      income |-> income_res,
                      ran |-> commands_run(verify_res) \cup commands_run(income_res)]]
    /\ UNCHANGED <<store, revenues, pc, loaded, form, chosen, nreq, environ, assigned>>

\* ------------------------------------------------------------ request inputs
sc == <<"s", "c">>
ZZ == <<"Z", "Z">>

IdOf(group, gender, n) == make_prefix(group, gender) \o format_04d(n)

SCB1 == IdOf(SC, "Male", 1)
SCB2 == IdOf(SC, "Male", 2)
SCG1 == IdOf(SC, "Female", 1)
\* number 2 without padding
SCB_2 == <<"S", "C", "-", "B", "-", "2">>
\* lower case: outside the prefix SC-B- for stored IDs, inside it for ignore_ids
scb3 == <<"s", "c", "-", "b", "-", "0", "0", "0", "3">>
\* no numeric last segment
SCB_x == <<"S", "C", "-", "B", "-", "x">>
\* fewer than three segments
TwoParts == <<"S", "C", "-", "7">>
\* the missing coupon itself
SCB51 == IdOf(SC, "Male", 51)

ProvidedIds == {SCB1, SCB51}

\* (name, roll) of the people who register: two share a name
Persons == {<<"Ann", "101">>, <<"Bob", "102">>, <<"Ann", "102">>}

AddForm(name, roll, gender, group, tshirt, size, rid) ==
    [op |-> "add", name |-> name, roll |-> roll, gender |-> gender, group |-> group,
     paid |-> 1200, tshirt |-> tshirt, tshirt_size |-> size,
     registration_id |-> rid, revenue_clients |-> <<>>]

\* forms with a provided ID, forms that ask for a generated ID for each kind
\* of (group, gender), and forms that fail each validation
AddForms ==
    {AddForm(q[1], q[2], "Male", SC, FALSE, "", rid) : q \in Persons, rid \in ProvidedIds}
    \cup {AddForm(q[1], q[2], "Male", SC, FALSE, "", <<>>) : q \in Persons}
    \cup {AddForm("Bob", "102", g[2], g[1], FALSE, "", <<>>) :
            g \in {<<SC, "Female">>, <<ZZ, "Male">>, <<SC, "Other">>}}
    \cup {AddForm("Bob", "102", "Male", SC, TRUE, sz, <<>>) : sz \in {"L", "", "S"}}
    \cup {AddForm("", "102", "Male", SC, FALSE, "", <<>>)}

EditForm(name, roll, gender, tshirt, size, rid, clients) ==
    [op |-> "edit", name |-> name, roll |-> roll, gender |-> gender,
     paid |-> 1200, tshirt |-> tshirt, tshirt_size |-> size, revoked |-> FALSE,
     registration_id |-> rid, revenue_clients |-> clients]

EditForms ==
    {EditForm("Ann", "101", "Male", FALSE, "", rid, <<>>) :
        rid \in {<<>>, SCB1, SCB51, SCG1, TwoParts}}
    \cup {EditForm("Ann", "102", "Male", FALSE, "", <<>>, <<>>)}
    \cup {EditForm("Bob", "102", "Male", TRUE, sz, <<>>, <<>>) : sz \in {"L", "", "S"}}
    \cup {EditForm("Bob", "102", "Male", FALSE, "", <<>>, <<"Custom Client">>)}

\* IDs named in the URL of an edit or delete request
TargetIds == {SCB1, SCB2, scb3}

QueryPairs == {<<SC, "Male">>, <<SC, "Other">>, <<ZZ, "Male">>}

IgnoreLists == {<<>>, <<scb3, SCB_x, SCB1>>}

\* the smaller inputs of the concurrent specification
ConcAddForms ==
    {AddForm(q[1], q[2], "Male", SC, FALSE, "", rid) :
        q \in {<<"Ann", "101">>, <<"Bob", "102">>}, rid \in {<<>>, SCB1}}

ConcEditForms ==
    {EditForm("Ann", "101", "Male", FALSE, "", rid, <<>>) : rid \in {<<>>, SCB2}}
    \cup {EditForm("Ann", "101", "Male", FALSE, "", <<>>, <<"Custom Client">>)}

ConcTargetIds == {SCB1, SCB2}

\* -------------------------------------------------------------- specification
RevenueOf(registrants) ==
    [i \in 1..Len(registrants) |->
        [id |-> i, type |-> "Registration", amount |-> registrants[i].paid,
         clients |-> <<"Unknown Client">>, comments |-> registrants[i].name]]

Ann1 == Registrant("Ann", "101", "Male", SC, SCB1, 1200, "")
Bob2 == Registrant("Bob", "102", "Male", SC, SCB2, 1200, "L")

\* dirty historical data: a malformed ID, a lower-case ID, an unpadded number
Dirty == <<Registrant("Cat", "103", "Male", SC, SCB_x, 1200, ""),
           Registrant("Dan", "104", "Male", SC, scb3, 1200, ""),
           Registrant("Eve", "105", "Male", SC, SCB_2, 1200, "")>>

InitStores == {<<>>, <<Ann1>>, <<Ann1, Bob2>>, Dirty}

InitWith(stores) ==
    /\ store \in stores
    /\ revenues = RevenueOf(store)
    /\ pc = [p \in Procs |-> "idle"]
    /\ loaded = [p \in Procs |-> <<>>]
    /\ form = [p \in Procs |-> NoForm]
    /\ chosen = [p \in Procs |-> <<>>]
    /\ resp = [p \in Procs |-> NoResp]
    /\ nreq = 0
    /\ assigned = {}

\* the server was started without either variable
NoEnviron == [name \in {"ENABLE_GIT_PUSH", "DISABLE_GIT_PUSH"} |-> Unset]

Init == InitWith(InitStores) /\ environ = NoEnviron

Add(p, forms) ==
    (\E f \in forms : AddLoad(p, f)) \/ AddGenerate(p) \/ AddSave(p) \/ AddRevenue(p)

Edit(p, targets, forms) ==
    \/ \E rid \in targets, f \in forms : EditLoad(p, rid, f)
    \/ EditSave(p)
    \/ EditRevenue(p)

Delete(p, targets) ==
    \/ \E rid \in targets, delete_revenue \in BOOLEAN : DeleteLoad(p, rid, delete_revenue)
    \/ DeleteSave(p)
    \/ DeleteRevenue(p)

Query(p, pairs, ignoreLists) ==
    \/ \E g \in pairs, ignore_ids \in ignoreLists :
          api_next_registration_id(p, g[1], g[2], ignore_ids)
    \/ \E g \in pairs : api_vacant_registration_ids(p, g[1], g[2])

\* requests served one at a time by a single worker
Next ==
    \/ Add(1, AddForms)
    \/ Edit(1, TargetIds, EditForms)
    \/ Delete(1, TargetIds)
    \/ Query(1, QueryPairs, IgnoreLists)

Spec == Init /\ [][Next]_vars

\* two workers serve add, edit and delete requests concurrently
NextConc ==
    \E p \in Procs :
        \/ Add(p, ConcAddForms)
        \/ Edit(p, ConcTargetIds, ConcEditForms)
        \/ Delete(p, ConcTargetIds)

SpecConc == Init /\ [][NextConc]_vars

\* ----------------------------------------------- the allocator on fixed files
\* a registrants file holding group-short-000n for the numbers in increasing order
RECURSIVE StoreOf(_, _, _)
StoreOf(group, gender, numbers) ==
    IF numbers = {} THEN <<>>
    ELSE LET n == SetMax(numbers)
         IN Append(StoreOf(group, gender, numbers \ {n}),
                   Registrant("Reg", ToString(n), gender, group,
                              IdOf(group, gender, n), 1200, ""))

\* numbers that registrants of (SC, Male) may hold in the small files
SmallNumbers == {1, 2, 4, 52, 101}

BookStores ==
    \* every choice of small numbers, alone and next to the dirty records
    {StoreOf(SC, "Male", N) : N \in SUBSET SmallNumbers}
    \cup {Dirty \o StoreOf(SC, "Male", N) : N \in {{}, {1}, {1, 3}}}
    \* first book of (SC, Male) full; full except 23 with 52 assigned; two books full
    \cup {StoreOf(SC, "Male", 1..50),
          StoreOf(SC, "Male", ((1..50) \ {23}) \cup {52}),
          StoreOf(SC, "Male", (1..50) \cup (52..100))}
    \* (AR, Female): books [1,50] and [51,100]
    \cup {StoreOf(AR, "Female", N) :
            N \in {{101}, {52}, ((1..50) \ {23}) \cup {52}, 1..100}}
    \* (CO, Female): books [1,35] and [36,50]
    \cup {StoreOf(CO, "Female", N) : N \in {36..50, 1..50, {1, 2, 36}}}
    \* registrants of several pairs in one file
    \cup {StoreOf(SC, "Male", {1, 2}) \o StoreOf(SC, "Female", {1})
            \o StoreOf(AR, "Male", {5}) \o StoreOf(ZZ, "Male", {1, 3})}

BookQueryPairs ==
    (BOOK_KEYS \ {<<CO, "Male">>}) \cup {<<sc, "Male">>, <<ZZ, "Male">>, <<SC, "Other">>}

\* SC-B-0001 .. SC-B-0050: reserves the whole first book of (SC, Male)
IgnoreFirstBook == [n \in 1..50 |-> IdOf(SC, "Male", n)]

BookIgnoreLists == IgnoreLists \cup {IgnoreFirstBook}

InitBooks == InitWith(BookStores) /\ environ = NoEnviron

NextBooks == Query(1, BookQueryPairs, BookIgnoreLists)

\* the two API queries over fixed registrants files
SpecBooks == InitBooks /\ [][NextBooks]_vars

\* ------------------------------------------- the allocator on irregular files
\* no final segment after the last dash
SCB_ == <<"S", "C", "-", "B", "-">>

\* a record of registrants.json whose registration_id is null
NullRecord == Registrant("Fay", "106", "Male", SC, JsonNull, 1200, "")

\* a record whose registration_id ends with a dash
EmptySegmentRecord == Registrant("Gus", "107", "Male", SC, SCB_, 1200, "")

\* files with records whose ID has no integer last segment or is not a string
DirtyStores ==
    {Dirty \o StoreOf(SC, "Male", N) : N \in {{}, {1}, {1, 3}}}
    \cup {<<EmptySegmentRecord>> \o StoreOf(SC, "Male", N) : N \in {{}, {1, 2}}}
    \cup {<<NullRecord>> \o StoreOf(SC, "Male", N) : N \in {{}, {1, 2}}}
    \cup {StoreOf(AR, "Female", {1}) \o <<NullRecord>>,
          StoreOf(AR, "Female", {1, 2}) \o Dirty}

DirtyQueryPairs == {<<SC, "Male">>, <<AR, "Female">>, <<ZZ, "Male">>, <<SC, "Other">>}

DirtyIgnoreLists == IgnoreLists \cup {<<SCB_, SCB2>>}

InitDirty == InitWith(DirtyStores) /\ environ = NoEnviron

NextDirty == Query(1, DirtyQueryPairs, DirtyIgnoreLists)

\* the two API queries over files with irregular records
SpecDirty == InitDirty /\ [][NextDirty]_vars

\* ------------------------------------------------------ the push-github toggle
\* values an environment variable of the server may have
EnvValues == {Unset, "0", "1", "true"}

Environs == [{"ENABLE_GIT_PUSH", "DISABLE_GIT_PUSH"} -> EnvValues]

InitPush == InitWith({<<>>, <<Ann1>>}) /\ environ \in Environs

NextPush == push_github(1)

\* POST /push-github under every choice of the two environment variables
SpecPush == InitPush /\ [][NextPush]_vars

\* --------------------------------------------------------------- properties
\* the numbers lo..hi of a ticket book
BookRange(book) == book[1]..book[2]

\* the smallest number of a book that is not taken (the book not being full)
MinFree(book, taken) ==
    CHOOSE n \in BookRange(book) :
        n \notin taken /\ \A m \in book[1]..(n - 1) : m \in taken

\* taken numbers of a pair as compute_vacant_registration_ids sees them
TakenOfPair(group, gender) ==
    taken_from_registrants(store, make_prefix(group, gender))
        \cup taken_from_missing(make_prefix(group, gender))

IsVacantAnswer(r) ==
    /\ r.op = "vacant"
    /\ <<r.group, r.gender>> \in DOMAIN BOOK_STRUCTURES

\* C1: get_next_registration_id returns prefix + n, n the smallest positive
\* integer not in taken (registrants, ignore_ids and missing coupons under
\* the prefix): n is not taken and every k with 1 <= k < n is taken.
C1_NextIsSmallestUntaken ==
    \A p \in Procs :
        (/\ resp[p].op = "next"
         /\ resp[p].group # <<>>
         /\ resp[p].gender \in DOMAIN GENDER_INFO) =>
            LET prefix == make_prefix(resp[p].group, resp[p].gender)
                taken == taken_from_registrants(store, prefix)
                           \cup taken_from_ignore(resp[p].ignore_ids, prefix)
                           \cup taken_from_missing(prefix)
                n == id_number(resp[p].result)
            IN /\ resp[p].status = 200
               /\ resp[p].result = prefix \o format_04d(n)
               /\ n >= 1
               /\ n \notin taken
               /\ \A k \in 1..(n - 1) : k \in taken

\* a call answered with a number that fills a gap below a taken number
C1_Witness ==
    /\ resp[1].op = "next"
    /\ resp[1].status = 200
    /\ id_number(resp[1].result) >= 3
    /\ id_number(resp[1].result) + 1 \in
          taken_from_registrants(store, make_prefix(resp[1].group, resp[1].gender))

\* C2: no ID returned by get_next_registration_id, and no next_id or option
\* returned by compute_vacant_registration_ids, equals a missing coupon
\* (compared case-insensitively), whoever holds it.
C2_MissingCouponsNeverOffered ==
    \A p \in Procs :
        LET missing == {upper(m) : m \in MISSING_COUPONS}
        IN /\ (resp[p].op = "next" /\ resp[p].status = 200) =>
                 upper(resp[p].result) \notin missing
           /\ (resp[p].op = "vacant" /\ resp[p].status = 200) =>
                 /\ upper(resp[p].result.next_id) \notin missing
                 /\ \A i \in 1..Len(resp[p].result.options) :
                       upper(resp[p].result.options[i]) \notin missing

\* every number below the missing coupon SC-B-0051 is taken, nobody holds 51,
\* and the call is answered with 52
C2_Witness ==
    /\ resp[1].op = "next"
    /\ resp[1].status = 200
    /\ resp[1].group = SC
    /\ resp[1].gender = "Male"
    /\ \A i \in 1..Len(store) : store[i].registration_id # SCB51
    /\ resp[1].result = IdOf(SC, "Male", 52)

\* C3: requests served one at a time keep the registration_id values of the
\* stored registrants pairwise distinct.
C3_UniqueIdsOneAtATime ==
    Cardinality({store[i].registration_id : i \in 1..Len(store)}) = Len(store)

\* an add was refused because its ID is held, and several registrants are stored
C3_Witness ==
    /\ resp[1].op = "add"
    /\ resp[1].status = "id_conflict"
    /\ Len(store) >= 2

\* C4: an add whose chosen registration_id is held by a stored registrant at
\* the moment it persists writes nothing (it is rejected with a conflict).
C4_AddRechecksIdBeforeSave ==
    [][\A p \in Procs :
          (pc[p] = "add_save" /\ pc'[p] = "add_revenue") =>
              \A i \in 1..Len(store) : store[i].registration_id # chosen[p]]_vars

\* C5: under every interleaving of add, edit and delete requests the stored
\* collection never holds two registrants with the same registration_id.
C5_UniqueIdsConcurrent ==
    \A i, j \in 1..Len(store) :
        i # j => store[i].registration_id # store[j].registration_id

C7_FreshPairOffersFirstBookOnly ==
    \A p \in Procs :
        IsVacantAnswer(resp[p]) =>
            LET r == resp[p]
                prefix == make_prefix(r.group, r.gender)
                taken == TakenOfPair(r.group, r.gender)
                book_defs == BOOK_STRUCTURES[<<r.group, r.gender>>]
            IN (\A k \in 1..Len(book_defs) : BookRange(book_defs[k]) \cap taken = {}) =>
                  LET g == MinFree(book_defs[1], taken)
                  IN /\ r.status = 200
                     /\ r.result.options = <<prefix \o format_04d(g)>>
                     /\ r.result.books[1] = [range |-> book_defs[1], started |-> FALSE,
                                             vacancy |-> TRUE, first_gap |-> g]
                     /\ \A k \in 2..Len(book_defs) : ~r.result.books[k].started

\* the pair has registrants, all of them numbered outside its books
C7_Witness ==
    /\ IsVacantAnswer(resp[1])
    /\ TakenOfPair(resp[1].group, resp[1].gender) # {}
    /\ \A k \in 1..Len(BOOK_STRUCTURES[<<resp[1].group, resp[1].gender>>]) :
          BookRange(BOOK_STRUCTURES[<<resp[1].group, resp[1].gender>>][k])
             \cap TakenOfPair(resp[1].group, resp[1].gender) = {}
    /\ Len(resp[1].result.options) = 1

\* C8: options holds an ID of a book other than the first only if the first
\* book has an assignment and the book before it is started.
C8_LaterBookOnlyAfterEarlier ==
    \A p \in Procs :
        (IsVacantAnswer(resp[p]) /\ resp[p].status = 200) =>
            LET r == resp[p]
                prefix == make_prefix(r.group, r.gender)
                book_defs == BOOK_STRUCTURES[<<r.group, r.gender>>]
            IN \A i \in 1..Len(r.result.options), k \in 2..Len(book_defs) :
                  id_number(r.result.options[i]) \in BookRange(book_defs[k]) =>
                     /\ taken_from_registrants(store, prefix)
                           \cap BookRange(book_defs[1]) # {}
                     /\ r.result.books[k - 1].started

\* C9: when some book is started, options lists, in ascending order, prefix +
\* the smallest untaken number of every started book that is not full, and
\* nothing else.
C9_StartedBooksOfferFirstGaps ==
    \A p \in Procs :
        IsVacantAnswer(resp[p]) =>
            LET r == resp[p]
                prefix == make_prefix(r.group, r.gender)
                taken == TakenOfPair(r.group, r.gender)
                book_defs == BOOK_STRUCTURES[<<r.group, r.gender>>]
                open == {k \in 1..Len(book_defs) :
                            /\ BookRange(book_defs[k]) \cap taken # {}
                            /\ ~(BookRange(book_defs[k]) \subseteq taken)}
                kth(i) == CHOOSE k \in open : Cardinality({m \in open : m < k}) = i - 1
            IN (\E k \in 1..Len(book_defs) : BookRange(book_defs[k]) \cap taken # {}) =>
                  /\ r.status = 200
                  /\ Len(r.result.options) = Cardinality(open)
                  /\ \A i \in 1..Len(r.result.options) :
                        r.result.options[i] =
                           prefix \o format_04d(MinFree(book_defs[kth(i)], taken))
                  /\ \A i, j \in 1..Len(r.result.options) :
                        i < j => id_number(r.result.options[i]) < id_number(r.result.options[j])

\* one book is full, one is started with room, one is not started
C9_Witness ==
    /\ IsVacantAnswer(resp[1])
    /\ LET taken == TakenOfPair(resp[1].group, resp[1].gender)
           book_defs == BOOK_STRUCTURES[<<resp[1].group, resp[1].gender>>]
       IN /\ \E k \in 1..Len(book_defs) : BookRange(book_defs[k]) \subseteq taken
          /\ \E k \in 1..Len(book_defs) : BookRange(book_defs[k]) \cap taken = {}
          /\ \E k \in 1..Len(book_defs) :
                /\ BookRange(book_defs[k]) \cap taken # {}
                /\ ~(BookRange(book_defs[k]) \subseteq taken)
    /\ Len(resp[1].result.options) = 1

\* the file of the example: books [1,50] and [51,100], every number of
\* [1,50] but 23 assigned, and 52 the only number of [51,100] assigned
C10_Example(r) ==
    /\ IsVacantAnswer(r)
    /\ BOOK_STRUCTURES[<<r.group, r.gender>>] = << <<1, 50>>, <<51, 100>> >>
    /\ taken_from_registrants(store, make_prefix(r.group, r.gender))
          = ((1..50) \ {23}) \cup {52}

C11_OptionsSortedNextIdSmallest ==
    \A p \in Procs :
        (resp[p].op = "vacant" /\ resp[p].status = 200) =>
            LET r == resp[p].result
            IN /\ \A i, j \in 1..Len(r.options) :
                     i < j => id_number(r.options[i]) <= id_number(r.options[j])
               /\ r.options # <<>> =>
                     /\ \E i \in 1..Len(r.options) : r.options[i] = r.next_id
                     /\ \A i \in 1..Len(r.options) :
                           id_number(r.next_id) <= id_number(r.options[i])
               /\ r.options = <<>> =>
                     r.next_id = get_next_registration_id(store, resp[p].group,
                                                          resp[p].gender, <<>>)

\* every book of the pair is full: nothing to offer, next_id is past the books
C11_Witness ==
    /\ IsVacantAnswer(resp[1])
    /\ resp[1].status = 200
    /\ resp[1].result.options = <<>>
    /\ id_number(resp[1].result.next_id) > 100

\* the pairs whose allocation is looked at before and after a step
FramePairs ==
    {<<SC, "Male">>, <<SC, "Female">>, <<AR, "Female">>, <<ZZ, "Male">>, <<sc, "Male">>}

\* the stored registrants whose ID starts with the prefix, in file order
UnderPrefix(registrants, prefix) ==
    LET Match(r) == startswith(r.registration_id, prefix)
    IN SelectSeq(registrants, Match)

\* the results for the pair on a file are those computed on the registrants
\* of the file whose ID starts with the prefix alone
OnlyPrefixCounts(registrants, group, gender) ==
    LET under == UnderPrefix(registrants, make_prefix(group, gender))
    IN /\ \A ignore_ids \in IgnoreLists :
             get_next_registration_id(registrants, group, gender, ignore_ids)
                = get_next_registration_id(under, group, gender, ignore_ids)
       /\ compute_vacant_registration_ids(registrants, group, gender)
             = compute_vacant_registration_ids(under, group, gender)

\* C12: only the stored registrants whose ID starts (case-sensitively) with
\* the prefix of (group, gender) count as taken, before and after every step
\* that writes the file; and a step that adds, edits or deletes only
\* registrants whose IDs do not start with the prefix changes neither
\* get_next_registration_id nor compute_vacant_registration_ids for the pair.
C12_OtherPrefixesDoNotCount ==
    [][store' # store =>
          \A g \in FramePairs :
              LET prefix == make_prefix(g[1], g[2])
              IN /\ OnlyPrefixCounts(store, g[1], g[2])
                 /\ OnlyPrefixCounts(store', g[1], g[2])
                 /\ UnderPrefix(store', prefix) = UnderPrefix(store, prefix) =>
                       /\ \A ignore_ids \in IgnoreLists :
                             get_next_registration_id(store', g[1], g[2], ignore_ids)
                                = get_next_registration_id(store, g[1], g[2], ignore_ids)
                       /\ compute_vacant_registration_ids(store', g[1], g[2])
                             = compute_vacant_registration_ids(store, g[1], g[2])]_vars

\* the registrant holding sc-b-0003 has been deleted from a file that holds
\* SC-B-0001 and SC-B-2
C12_Witness ==
    /\ resp[1].op = "delete"
    /\ resp[1].status = "ok"
    /\ \A i \in 1..Len(store) : store[i].registration_id # scb3
    /\ \E i \in 1..Len(store) : store[i].registration_id = SCB_2
    /\ \E i \in 1..Len(store) : store[i].registration_id = SCB1

\* an ID that is a string whose last dash-separated segment is an integer
WellFormedId(rid) == isinstance_str(rid) /\ int(split_last(upper(rid))) # ValueError

\* the registrants whose ID is well formed, in file order
WellFormed(registrants) ==
    LET Keep(r) == WellFormedId(r.registration_id)
    IN SelectSeq(registrants, Keep)

\* C13: stored registrants and ignore_ids entries whose ID is not a string or
\* has no integer last segment never make get_next_registration_id or
\* compute_vacant_registration_ids fail, and the result is the one computed
\* with these entries removed.
C13_MalformedEntriesSkipped ==
    \A p \in Procs :
        (/\ resp[p].op \in {"next", "vacant"}
         /\ resp[p].group # <<>>
         /\ resp[p].gender \in DOMAIN GENDER_INFO) =>
            /\ resp[p].status = 200
            /\ resp[p].op = "next" =>
                  resp[p].result =
                     get_next_registration_id(WellFormed(store), resp[p].group,
                        resp[p].gender, SelectSeq(resp[p].ignore_ids, WellFormedId))
            /\ resp[p].op = "vacant" =>
                  resp[p].result =
                     compute_vacant_registration_ids(WellFormed(store), resp[p].group,
                                                     resp[p].gender)

\* C14: a call of get_next_registration_id or compute_vacant_registration_ids
\* with a gender that is not a key of GENDER_INFO raises, the endpoint answers
\* 400, and the answer carries no ID (no short code is made up).
C14_UnknownGenderFails ==
    \A p \in Procs :
        (/\ resp[p].op \in {"next", "vacant"}
         /\ resp[p].gender \notin DOMAIN GENDER_INFO) =>
            /\ resp[p].status = 400
            /\ resp[p].op = "next" => resp[p].result \in {KeyError, <<>>}
            /\ resp[p].op = "vacant" => resp[p].result \in {[raised |-> KeyError], <<>>}

\* the quick-select query was made with gender Other on a file with registrants
C14_Witness ==
    /\ resp[1].op = "vacant"
    /\ resp[1].group = SC
    /\ resp[1].gender = "Other"
    /\ resp[1].status = 400
    /\ Len(store) > 0

\* C15: a call of get_next_registration_id or compute_vacant_registration_ids
\* with a group that is not a key of GROUP_INFO is rejected: the endpoint
\* answers with an error and the answer carries no ID and no partial result,
\* whatever the gender.
C15_UnknownGroupRejected ==
    \A p \in Procs :
        (/\ resp[p].op \in {"next", "vacant"}
         /\ resp[p].group \notin GROUP_INFO) =>
            /\ resp[p].status = 400
            /\ resp[p].op = "next" => resp[p].result \in {KeyError, <<>>}
            /\ resp[p].op = "vacant" => resp[p].result \in {[raised |-> KeyError], <<>>}

\* C16: for a pair without an entry in BOOK_STRUCTURES whose gender is
\* configured, compute_vacant_registration_ids returns no books and exactly
\* one option, next_id is that option, and it is the ID that
\* get_next_registration_id returns for the pair on the same file: the prefix
\* followed by the smallest positive number no registrant or missing coupon
\* under the prefix holds.
C16_NoBooksFallsBackToNextId ==
    \A p \in Procs :
        (/\ resp[p].op = "vacant"
         /\ resp[p].group # <<>>
         /\ resp[p].gender \in DOMAIN GENDER_INFO
         /\ <<resp[p].group, resp[p].gender>> \notin DOMAIN BOOK_STRUCTURES) =>
            LET r == resp[p].result
                prefix == make_prefix(resp[p].group, resp[p].gender)
                taken == TakenOfPair(resp[p].group, resp[p].gender)
                n == id_number(r.next_id)
            IN /\ resp[p].status = 200
               /\ r.books = <<>>
               /\ r.options = <<r.next_id>>
               /\ r.next_id = get_next_registration_id(store, resp[p].group,
                                                       resp[p].gender, <<>>)
               /\ r.next_id = prefix \o format_04d(n)
               /\ n >= 1 /\ n \notin taken /\ \A k \in 1..(n - 1) : k \in taken

\* the pair (ZZ, Male) has no books; ZZ-B-0001 and ZZ-B-0003 are on file and
\* ZZ-B-0002 is the answer
C16_Witness ==
    /\ resp[1].op = "vacant"
    /\ resp[1].group = ZZ
    /\ resp[1].gender = "Male"
    /\ resp[1].status = 200
    /\ resp[1].result.options = <<IdOf(ZZ, "Male", 2)>>

\* C17 as stated: in every book entry, started is true exactly when a number
\* of the range is taken; first_gap is the smallest untaken number of the
\* range, absent only when the whole range is taken; vacancy is true exactly
\* when first_gap is present.
C17_BookStateAsStated ==
    \A p \in Procs :
        (IsVacantAnswer(resp[p]) /\ resp[p].status = 200) =>
            LET r == resp[p].result
                taken == TakenOfPair(resp[p].group, resp[p].gender)
                book_defs == BOOK_STRUCTURES[<<resp[p].group, resp[p].gender>>]
            IN /\ Len(r.books) = Len(book_defs)
               /\ \A k \in 1..Len(book_defs) :
                     /\ r.books[k].range = book_defs[k]
                     /\ r.books[k].started <=> (BookRange(book_defs[k]) \cap taken # {})
                     /\ r.books[k].first_gap =
                           IF BookRange(book_defs[k]) \subseteq taken THEN None
                           ELSE MinFree(book_defs[k], taken)
                     /\ r.books[k].vacancy <=> (r.books[k].first_gap # None)

\* C17 amended: in every book entry, started is true exactly when a number
\* of the range is taken (by a registrant or a missing coupon) and vacancy is
\* true exactly when first_gap is present. For a started book first_gap is
\* the smallest untaken number of the range, absent only when the whole range
\* is taken. For a book that is not started first_gap is absent, except for
\* the first book when no book is started, whose first_gap is its smallest
\* untaken number.
C17_BookState ==
    \A p \in Procs :
        (IsVacantAnswer(resp[p]) /\ resp[p].status = 200) =>
            LET r == resp[p].result
                taken == TakenOfPair(resp[p].group, resp[p].gender)
                book_defs == BOOK_STRUCTURES[<<resp[p].group, resp[p].gender>>]
                started(k) == BookRange(book_defs[k]) \cap taken # {}
                fresh == \A k \in 1..Len(book_defs) : ~started(k)
            IN /\ Len(r.books) = Len(book_defs)
               /\ \A k \in 1..Len(book_defs) :
                     /\ r.books[k].range = book_defs[k]
                     /\ r.books[k].started <=> started(k)
                     /\ r.books[k].first_gap =
                           IF BookRange(book_defs[k]) \subseteq taken THEN None
                           ELSE IF started(k) \/ (fresh /\ k = 1)
                                THEN MinFree(book_defs[k], taken)
                           ELSE None
                     /\ r.books[k].vacancy <=> (r.books[k].first_gap # None)

\* the first book is not started and shows no gap while the second is full:
\* nothing is offered and next_id lies in the first book
C17_Witness ==
    /\ IsVacantAnswer(resp[1])
    /\ resp[1].status = 200
    /\ ~resp[1].result.books[1].started
    /\ resp[1].result.books[1].first_gap = None
    /\ resp[1].result.books[2].started
    /\ ~resp[1].result.books[2].vacancy
    /\ resp[1].result.options = <<>>
    /\ id_number(resp[1].result.next_id) = 1

\* C18: a step that answers /api/next_registration_id or
\* /api/vacant_registration_ids, with an ID or with an error, and the call of
\* get_next_registration_id inside an add request, leave the registrants file
\* and the revenue ledger as they were.
C18_QueriesWriteNothing ==
    [][\A p \in Procs :
          (\/ resp'[p] # resp[p] /\ resp'[p].op \in {"next", "vacant"}
           \/ pc[p] = "add_generate" /\ pc'[p] # pc[p]) =>
              (store' = store /\ revenues' = revenues)]_vars

\* a query has been refused on files that requests have written
C18_Witness ==
    /\ resp[1].op \in {"next", "vacant"}
    /\ resp[1].status = 400
    /\ nreq > 0
    /\ store \notin InitStores
    /\ Len(store) > 1
    /\ Len(revenues) > 1

\* C19: whenever /api/next_registration_id answers with an ID for a list of
\* ignore_ids, the number of the ID differs from the number of every entry of
\* the list that starts with the prefix when both are upper-cased, the number
\* is at least the number returned for the same file without ignore_ids, and
\* the step leaves the registrants file as it was.
C19_IgnoreIdsReserveWithoutWriting ==
    /\ [](\A p \in Procs :
            (resp[p].op = "next" /\ resp[p].status = 200) =>
                LET r == resp[p]
                    prefix == make_prefix(r.group, r.gender)
                    n == id_number(r.result)
                IN /\ \A i \in 1..Len(r.ignore_ids) :
                         (/\ startswith(upper(r.ignore_ids[i]), upper(prefix))
                          /\ int(split_last(upper(r.ignore_ids[i]))) # ValueError) =>
                             n # int(split_last(upper(r.ignore_ids[i])))
                   /\ n >= id_number(get_next_registration_id(store, r.group,
                                                              r.gender, <<>>)))
    /\ [][\A p \in Procs :
             (resp'[p] # resp[p] /\ resp'[p].op = "next") => store' = store]_vars

\* SC-B-0001 and SC-B-0002 are on file after a request, sc-b-0003 and
\* SC-B-0001 are ignored, and the answer is SC-B-0004
C19_Witness ==
    /\ resp[1].op = "next"
    /\ resp[1].status = 200
    /\ resp[1].ignore_ids = <<scb3, SCB_x, SCB1>>
    /\ resp[1].result = IdOf(SC, "Male", 4)
    /\ nreq > 0
    /\ taken_from_registrants(store, make_prefix(SC, "Male")) = {1, 2}

\* C20: /push-github runs git commands only when ENABLE_GIT_PUSH is 1; with
\* any other environment, nothing set included, it answers 403 with success
\* false and runs no git command.
C20_PushOnlyWhenEnabled ==
    \A p \in Procs :
        (resp[p].op = "push" /\ environ["ENABLE_GIT_PUSH"] # "1") =>
            /\ resp[p].status = 403
            /\ ~resp[p].success
            /\ resp[p].ran = {}

\* C21: no stored registrant holds an ID of MISSING_COUPONS (the files the
\* server starts with hold none), whatever add, edit and delete requests
\* have been served.
C21_MissingCouponsNeverStored ==
    \A i \in 1..Len(store) :
        upper(store[i].registration_id) \notin {upper(m) : m \in MISSING_COUPONS}

\* C22: with requests served one at a time, no two stored registrants have
\* the same roll (the files the server starts with have distinct rolls).
C22_UniqueRollsOneAtATime ==
    \A i, j \in 1..Len(store) : i # j => store[i].roll # store[j].roll

\* C23: when two add requests, the only requests made, have both reported
\* success, the registrants file holds two distinct records that carry the
\* name and the registration_id each request reported.
C23_NoAddOverwritten ==
    (/\ nreq = 2
     /\ \A p \in Procs : resp[p].op = "add" /\ resp[p].status = "ok") =>
        \E i, j \in 1..Len(store) :
            /\ i # j
            /\ store[i].name = resp[1].name
            /\ store[i].registration_id = resp[1].registration_id
            /\ store[j].name = resp[2].name
            /\ store[j].registration_id = resp[2].registration_id

\* the answers of add_registrant that refuse the form
AddRejections == {"required", "roll_conflict", "tshirt_missing", "tshirt_invalid",
                  "id_conflict"}

\* C24: a step in which an add request is refused (a required field missing,
\* the roll already registered, T-Shirt selected with a missing or invalid
\* size, the provided registration_id already held) leaves the registrants
\* file and the revenue ledger as they were.
C24_RejectedAddWritesNothing ==
    [][\A p \in Procs :
          (/\ pc[p] = "idle"
           /\ nreq' # nreq
           /\ resp'[p].op = "add"
           /\ resp'[p].status \in AddRejections) =>
              (store' = store /\ revenues' = revenues)]_vars

\* an add has been refused for its roll after an earlier request was served
C24_Witness ==
    /\ resp[1].op = "add"
    /\ resp[1].status = "roll_conflict"
    /\ nreq = 2
    /\ store \notin InitStores
    /\ Len(revenues) > 0

\* the answers of edit_registrant that refuse the form
EditRejections == {"bad_format", "id_conflict", "gender_conflict", "tshirt_missing",
                   "tshirt_invalid"}

\* C25: a step in which an edit request is refused (new registration_id with
\* fewer than three parts, or held by another registrant, or encoding a gender
\* other than the submitted one; T-Shirt selected with a missing or invalid
\* size) leaves the registrants file and the revenue ledger as they were: the
\* changes made to the loaded record are not saved.
C25_RejectedEditWritesNothing ==
    [][\A p \in Procs :
          (/\ pc[p] = "idle"
           /\ nreq' # nreq
           /\ resp'[p].op = "edit"
           /\ resp'[p].status \in EditRejections) =>
              (store' = store /\ revenues' = revenues)]_vars

\* an edit has been refused for its T-shirt size after an earlier request
\* changed the file
C25_Witness ==
    /\ resp[1].op = "edit"
    /\ resp[1].status = "tshirt_invalid"
    /\ nreq = 2
    /\ store \notin InitStores
    /\ Len(revenues) > 0

\* C26: with requests served one at a time, the step of an add that saves the
\* registrants appends one record to the file (revoked false, the name of the
\* form, registration_id the provided one or else the ID that
\* get_next_registration_id returns for the form's pair) and changes no other
\* record; the step that ends the add with success appends one revenue entry
\* (type Registration, comments the name, amount the paid value) and changes
\* no other entry; an add whose save of the registrants fails changes neither
\* file.
C26_SuccessfulAddEffect ==
    [][\A p \in Procs :
          /\ (pc[p] = "add_save" /\ pc'[p] = "add_revenue") =>
                /\ Len(store') = Len(store) + 1
                /\ SubSeq(store', 1, Len(store)) = store
                /\ ~store'[Len(store')].revoked
                /\ store'[Len(store')].name = form[p].name
                /\ store'[Len(store')].registration_id =
                      IF form[p].registration_id # <<>> THEN form[p].registration_id
                      ELSE get_next_registration_id(store, form[p].group,
                                                    form[p].gender, <<>>)
                /\ revenues' = revenues
          /\ (pc[p] = "add_revenue" /\ pc'[p] = "idle") =>
                /\ resp'[p].status = "ok"
                /\ store' = store
                /\ Len(revenues') = Len(revenues) + 1
                /\ SubSeq(revenues', 1, Len(revenues)) = revenues
                /\ revenues'[Len(revenues')].type = "Registration"
                /\ revenues'[Len(revenues')].comments = form[p].name
                /\ revenues'[Len(revenues')].amount = form[p].paid
          /\ (pc[p] = "add_save" /\ pc'[p] = "idle") =>
                /\ resp'[p].status = "save_failed"
                /\ store' = store
                /\ revenues' = revenues]_vars

\* Registration entries of the ledger commented with a name
RegistrationEntriesOf(revs, name) ==
    {k \in 1..Len(revs) : revs[k].type = "Registration" /\ revs[k].comments = name}

\* stored registrants carrying a name
RegistrantsNamed(registrants, name) ==
    {i \in 1..Len(registrants) : registrants[i].name = name}

\* C27: the ledger step of a delete request sent with delete_revenue takes
\* away only entries of the deleted registrant: every registrant that is still
\* stored keeps its Registration entry (for each name, as many Registration
\* entries stay as there are stored registrants of that name that had one),
\* also when the deleted registrant had the same name, and entries commented
\* with another name stay as they were; a delete without the flag, a delete
\* whose save fails and a delete for an ID that no registrant holds leave the
\* ledger unchanged.
C27_DeleteRevenueOnlyOwn ==
    [][\A p \in Procs :
          /\ (pc[p] = "delete_revenue" /\ pc'[p] = "idle") =>
                /\ \A i \in 1..Len(store') :
                      LET name == store'[i].name
                          before == Cardinality(RegistrationEntriesOf(revenues, name))
                          stored == Cardinality(RegistrantsNamed(store', name))
                      IN Cardinality(RegistrationEntriesOf(revenues', name)) >=
                            (IF before < stored THEN before ELSE stored)
                /\ \A k \in 1..Len(revenues) :
                      revenues[k].comments # form[p].name =>
                          \E j \in 1..Len(revenues') : revenues'[j] = revenues[k]
          /\ (pc[p] = "delete_save" /\ pc'[p] = "idle") => revenues' = revenues
          /\ (pc[p] = "delete_save" /\ pc'[p] = "delete_revenue") => revenues' = revenues
          /\ (pc[p] = "idle" /\ nreq' # nreq /\ resp'[p].op = "delete") =>
                revenues' = revenues]_vars

\* registration_id values of the stored registrants
StoredIds == {store[i].registration_id : i \in 1..Len(store)}

\* an add form of a person who is not registered, carrying a provided ID
FreshAddForm(group, gender, rid) == AddForm("Zed", "999", gender, group, FALSE, "", rid)

\* C28: an ID answered by get_next_registration_id, and next_id and every
\* entry of options answered by compute_vacant_registration_ids, is the
\* registration_id of no stored registrant, and an add request of a new person
\* that carries it as provided ID on the same file passes the validation;
\* the number of next_id of compute_vacant_registration_ids is at least the
\* number get_next_registration_id returns for the pair.
C28_AnswersAreFree ==
    \A p \in Procs :
        /\ (resp[p].op = "next" /\ resp[p].status = 200) =>
              /\ resp[p].result \notin StoredIds
              /\ add_validate(store, FreshAddForm(resp[p].group, resp[p].gender,
                                                  resp[p].result)) = "ok"
        /\ (resp[p].op = "vacant" /\ resp[p].status = 200) =>
              LET r == resp[p].result
                  offered == {r.next_id} \cup {r.options[k] : k \in 1..Len(r.options)}
              IN /\ offered \cap StoredIds = {}
                 /\ \A rid \in offered :
                       add_validate(store, FreshAddForm(resp[p].group, resp[p].gender,
                                                        rid)) = "ok"
                 /\ id_number(r.next_id) >=
                       id_number(get_next_registration_id(store, resp[p].group,
                                                          resp[p].gender, <<>>))

\* two started books of (SC, Male) offer their gaps above taken numbers while
\* the first book is untouched: next_id lies above the global first gap
C28_Witness ==
    /\ resp[1].op = "vacant" /\ resp[1].status = 200
    /\ Len(resp[1].result.options) >= 2
    /\ Len(store) >= 2
    /\ id_number(resp[1].result.next_id) >
          id_number(get_next_registration_id(store, resp[1].group, resp[1].gender, <<>>))

\* C29: for a pair configured in BOOK_STRUCTURES, whenever some configured
\* book of the pair holds a number that is not taken, the number of the
\* next_id answered by compute_vacant_registration_ids lies inside the range
\* of a configured book of the pair, also when every started book is full and
\* no option is offered.
C29_NextIdInsideABook ==
    \A p \in Procs :
        (/\ IsVacantAnswer(resp[p])
         /\ resp[p].status = 200
         /\ LET book_defs == BOOK_STRUCTURES[<<resp[p].group, resp[p].gender>>]
            IN \E b \in 1..Len(book_defs) :
                  BookRange(book_defs[b]) \ TakenOfPair(resp[p].group, resp[p].gender) # {}) =>
            LET book_defs == BOOK_STRUCTURES[<<resp[p].group, resp[p].gender>>]
            IN \E b \in 1..Len(book_defs) :
                  id_number(resp[p].result.next_id) \in BookRange(book_defs[b])

\* registrants are stored, nothing is offered because every started book is
\* full, and a book that is not started still has all its numbers
C29_Witness ==
    /\ IsVacantAnswer(resp[1])
    /\ resp[1].status = 200
    /\ Len(store) > 0
    /\ resp[1].result.options = <<>>
    /\ \E b \in 1..Len(resp[1].result.books) :
          /\ ~resp[1].result.books[b].started
          /\ BookRange(resp[1].result.books[b].range)
                \cap TakenOfPair(resp[1].group, resp[1].gender) = {}
    /\ \E b \in 1..Len(resp[1].result.books) :
          /\ resp[1].result.books[b].started
          /\ BookRange(resp[1].result.books[b].range)
                \subseteq TakenOfPair(resp[1].group, resp[1].gender)

\* numbers of the IDs of (SC, Male) that the requests of Spec generate
GeneratedNumbers == 1..3

\* the number get_next_registration_id(group, gender) returns on a file
NextNumberOn(registrants, group, gender) ==
    id_number(get_next_registration_id(registrants, group, gender, <<>>))

\* taken numbers of a pair on a file
TakenOn(registrants, group, gender) ==
    taken_from_registrants(registrants, make_prefix(group, gender))
        \cup taken_from_missing(make_prefix(group, gender))

\* a response of get_next_registration_id(SC, Male) through the API
IsNextAnswer(r) ==
    /\ r.op = "next"
    /\ r.status = 200
    /\ r.group = SC /\ r.gender = "Male" /\ r.ignore_ids = <<>>

\* the step that answers get_next_registration_id(SC, Male) while the
\* registrant that an add without a provided ID stored as SC-B-<n> is on file
NextAnsweredWhileStored(p, n) ==
    /\ pc[p] = "idle"
    /\ resp'[p] # resp[p]
    /\ IsNextAnswer(resp'[p])
    /\ IdOf(SC, "Male", n) \in assigned
    /\ IdOf(SC, "Male", n) \in StoredIds

\* the step of a delete request that takes the registrants holding SC-B-<n>
\* out of the file
DeletedId(n) ==
    /\ \E p \in Procs : pc[p] = "delete_save"
    /\ IdOf(SC, "Male", n) \in StoredIds
    /\ \A i \in 1..Len(store') : store'[i].registration_id # IdOf(SC, "Male", n)

====
